---- MODULE Spec2Model ----
(***************************************************************************)
(* Model of the remote-storage allocator and the operator layer of         *)
(* torch_remote/csrc/RemoteMem.cpp.                                        *)
(*                                                                         *)
(* Threads of the host framework call allocate / copy_data / the deleter / *)
(* validate_device_index / empty_remote / empty_strided_remote /           *)
(* as_strided_remote / set_remote.  Every step that calls into the Python  *)
(* backend is one action; the reply of the backend (a value or a raised    *)
(* exception) is chosen by the environment.                                *)
(***************************************************************************)
EXTENDS Integers, Sequences, FiniteSets, TLC

(* ------------------------------ bounds --------------------------------- *)
\* handles the generate-storage-id callback can mint: 1..MaxId
MaxId == 2
\* device counts the backend reports: 0..MaxCount (and one uncastable value)
MaxCount == 2

\* the variables of the host framework that hold a tensor
TensorSlots == {1, 2}

\* the execution contexts (host threads) that call into the core
Threads == {1, 2}

(* ------------------------- program constants --------------------------- *)
\* c10::DeviceIndex is a signed 8-bit integer; cast<c10::DeviceIndex>() of a
\* Python int outside this range raises a cast error.
DeviceIndexMin == -128
DeviceIndexMax == 127

VARIABLES
  pc,          \* pc[t]: position of thread t inside the operation it runs
  op,          \* op[t]: the operation thread t runs and its arguments
  loc,         \* loc[t]: the C++ locals of that operation
  calls,       \* calls[t]: backend callbacks issued by the running operation
  res,         \* res[t]: how the last operation of t ended (valid at "done")
  gil,         \* holder of the interpreter lock (0: nobody)
  minted,      \* backend: handles generate-storage-id has returned
  storages,    \* backend: remote storage records (handle, nbytes, device)
  freed,       \* backend: handles whose storage free-storage released
  curDevice,   \* curDevice[t]: current device index of thread t
  live,        \* host framework: DataPtrs it holds
  tensors,     \* host framework: tensors[s] is the descriptor in variable s
  returned,    \* history: data pointers successful allocate calls returned
  freeCalls    \* history: handles the free-storage callback was called with

vars == <<pc, op, loc, calls, res, gil, minted, storages, freed, curDevice,
          live, tensors, returned, freeCalls>>

(* ------------------------------ values --------------------------------- *)
Ids == 1..MaxId
\* byte counts the framework asks the allocator for
ByteCounts == {0, 1}
\* byte counts the framework asks copy_data to move
CopyCounts == {1}
\* what the device-count callback can hand back: castable counts and one
\* Python int that does not fit c10::DeviceIndex
CountValues == (0..MaxCount) \cup {DeviceIndexMax + 1}
\* device indices callers pass
Indices == (-1)..MaxCount

NoOp == [name |-> "none"]
NoLoc == [nbytes |-> 0, dev |-> -1, id |-> 0, target |-> -1, saved |-> -1,
          reply |-> "none", count |-> -1]
NoRes == [kind |-> "none"]
\* a tensor variable that holds no tensor
NoTensor ==
  [storage |-> [addr |-> 0], device |-> [type |-> "none", index |-> -1],
   size |-> <<>>, stride |-> <<>>, offset |-> 0, dtype |-> "none"]

\* storage_id_t -> void* (RemoteMem.cpp:39): the bits of the id become the
\* address; nothing is allocated locally
ReinterpretAsPtr(storage_id) == [addr |-> storage_id]
\* void* -> storage_id_t (RemoteMem.cpp:51-52)
ReinterpretAsId(ptr) == ptr.addr
NullPtr == [addr |-> 0]

\* name of the deleter allocate and raw_deleter hand to the framework
RawDeleter == "ReportAndDelete<kFreeStorageMethod>"

\* at::DataPtr{data, ctx, deleter, device} built by allocate
MakeDataPtrNullCtx(data, device_idx) ==
  [data |-> data, ctx |-> NullPtr, deleter |-> RawDeleter,
   device |-> [type |-> "remote", index |-> device_idx]]
MakeDataPtr(data, device_idx) ==
  [data |-> data, ctx |-> data, deleter |-> RawDeleter,
   device |-> [type |-> "remote", index |-> device_idx]]

\* the backend callback names
GetDevice == "getDevice"
GenerateStorageId == "generate_storage_id"
CreateStorage == "create_storage"
FreeStorage == "free_storage"
CopyDataById == "copy_data_by_id"
DeviceCount == "deviceCount"

Call(name, args) == [name |-> name, args |-> args]

\* a reply of the backend to a callback: a value, or a raised Python exception
Raised == [raised |-> TRUE]
Value(v) == [raised |-> FALSE, value |-> v]

\* how an operation ends: normally with a value, or with an exception
Ok(v) == [kind |-> "ok", value |-> v]
Err(kind) == [kind |-> kind]

TypeOK ==
  /\ pc \in [Threads -> STRING]
  /\ gil \in {0} \cup Threads
  /\ minted \subseteq Ids
  /\ freed \subseteq Ids
  /\ freeCalls \subseteq Ids \cup {0}
  /\ curDevice \in [Threads -> Indices]

Init ==
  /\ pc = [t \in Threads |-> "idle"]
  /\ op = [t \in Threads |-> NoOp]
  /\ loc = [t \in Threads |-> NoLoc]
  /\ calls = [t \in Threads |-> <<>>]
  /\ res = [t \in Threads |-> NoRes]
  /\ gil = 0
  /\ minted = {}
  /\ storages = {}
  /\ freed = {}
  /\ curDevice = [t \in Threads |-> 0]
  /\ live = {}
  /\ tensors = [s \in TensorSlots |-> NoTensor]
  /\ returned = {}
  /\ freeCalls = {}

\* thread t is between two operations
Idle(t) == pc[t] = "idle"

\* thread t enters operation o at position p with locals l and result r
Enter(t, o, p, l, r) ==
  /\ Idle(t)
  /\ pc' = [pc EXCEPT ![t] = p]
  /\ op' = [op EXCEPT ![t] = o]
  /\ loc' = [loc EXCEPT ![t] = l]
  /\ calls' = [calls EXCEPT ![t] = <<>>]
  /\ res' = [res EXCEPT ![t] = r]

\* the caller of thread t has taken the result of the finished operation
Return(t) ==
  /\ pc[t] = "done"
  /\ pc' = [pc EXCEPT ![t] = "idle"]
  /\ op' = [op EXCEPT ![t] = NoOp]
  /\ loc' = [loc EXCEPT ![t] = NoLoc]
  /\ calls' = [calls EXCEPT ![t] = <<>>]
  /\ res' = [res EXCEPT ![t] = NoRes]
  /\ UNCHANGED <<gil, minted, storages, freed, freeCalls, curDevice, live,
                 tensors, returned>>

\* py::gil_scoped_acquire: blocks until the lock is free, then holds it
GilAcquireSkipped(t) == gil' = gil
GilAcquire(t) == gil = 0 /\ gil' = t

(* ------------------- the backend (external callbacks) ------------------ *)
\* generate-storage-id: a handle that is non-zero and was never minted
\* before, or a raised exception
GenerateStorageIdReplies == {Value(h) : h \in Ids \ minted} \cup {Raised}
\* getDevice: the current device index of the calling context
GetDeviceReplies(t) == {Value(curDevice[t]), Raised}
\* create-storage: success, failure, or a raised exception
CreateStorageReplies == {Value(TRUE), Value(FALSE), Raised}
\* copy-data-by-id: returns nothing (None); a backend that returns False to
\* "report failure" is also a possible reply; or it raises
CopyDataReplies == {Value("None"), Value("False"), Raised}
\* free-storage: best effort
FreeStorageReplies == {Value(TRUE), Value(FALSE), Raised}
\* deviceCount: the count the backend reports at the time of the call (it
\* may differ from one call to the next), or a raised exception
DeviceCountReplies == {Value(c) : c \in CountValues} \cup {Raised}

(* ----------------------- RemoteAllocator::allocate --------------------- *)
\* at::DataPtr allocate(size_t nbytes), called by the framework directly;
\* line 22: py::gil_scoped_acquire acquire (the call waits for the lock)
CallAllocate(t) ==
  /\ \E nbytes \in ByteCounts :
       Enter(t, [name |-> "allocate", nbytes |-> nbytes], "alloc_getDevice",
             [NoLoc EXCEPT !.nbytes = nbytes], NoRes)
  /\ GilAcquire(t)
  /\ UNCHANGED <<minted, storages, freed, freeCalls, curDevice, live,
                 tensors, returned>>

\* line 22 when a tensor factory calls allocate
AllocAcquire(t) ==
  /\ pc[t] = "alloc_acquire"
  /\ GilAcquire(t)
  /\ pc' = [pc EXCEPT ![t] = "alloc_getDevice"]
  /\ UNCHANGED <<op, loc, calls, res, minted, storages, freed, freeCalls,
                 curDevice, live, tensors, returned>>

\* line 35: TORCH_CHECK(success, ...)
AllocCheckIgnored(success) == TRUE
AllocCheck(success) == success

\* line 39: data = reinterpret_cast<void*>(storage_id)
AllocDataNull(storage_id) == NullPtr
AllocDataZeroBased(storage_id) == ReinterpretAsPtr(storage_id - 1)
AllocData(storage_id) == ReinterpretAsPtr(storage_id)

\* an exception leaves allocate: the scoped lock is released; when allocate
\* runs inside a tensor factory the DeviceGuard restores the device
AllocThrow(t, kind) ==
  /\ gil' = 0
  /\ pc' = [pc EXCEPT ![t] = "done"]
  /\ res' = [res EXCEPT ![t] = Err(kind)]
  /\ curDevice' = IF op[t].name = "allocate" THEN curDevice
                  ELSE [curDevice EXCEPT ![t] = loc[t].saved]
  /\ UNCHANGED <<live, tensors, returned>>

\* line 23: getDevice
AllocGetDevice(t) ==
  /\ pc[t] = "alloc_getDevice"
  /\ calls' = [calls EXCEPT ![t] = Append(@, Call(GetDevice, <<>>))]
  /\ \E reply \in GetDeviceReplies(t) :
       IF reply.raised
       THEN /\ AllocThrow(t, "CallbackRaised")
            /\ loc' = [loc EXCEPT ![t].reply = "raised"]
       ELSE /\ loc' = [loc EXCEPT ![t].dev = reply.value, ![t].reply = "value"]
            /\ pc' = [pc EXCEPT ![t] = "alloc_generateId"]
            /\ UNCHANGED <<res, gil, curDevice, live, tensors, returned>>
  /\ UNCHANGED <<op, minted, storages, freed, freeCalls>>

\* line 29: generate_storage_id
AllocGenerateId(t) ==
  /\ pc[t] = "alloc_generateId"
  /\ calls' = [calls EXCEPT ![t] = Append(@, Call(GenerateStorageId, <<>>))]
  /\ \E reply \in GenerateStorageIdReplies :
       IF reply.raised
       THEN /\ AllocThrow(t, "CallbackRaised")
            /\ loc' = [loc EXCEPT ![t].reply = "raised"]
            /\ UNCHANGED minted
       ELSE /\ loc' = [loc EXCEPT ![t].id = reply.value, ![t].reply = "value"]
            /\ minted' = minted \cup {reply.value}
            /\ pc' = [pc EXCEPT ![t] = "alloc_createStorage"]
            /\ UNCHANGED <<res, gil, curDevice, live, tensors, returned>>
  /\ UNCHANGED <<op, storages, freed, freeCalls>>

\* the tensor at::detail::empty_generic / empty_strided_generic builds on the
\* storage allocate returned: it lives on the DataPtr's device
FactoryTensor(o, dp) ==
  [storage |-> dp.data, device |-> dp.device, size |-> o.size,
   stride |-> o.stride, offset |-> 0,
   dtype |-> IF o.dtype.has THEN o.dtype.value ELSE "float32"]

\* line 41: return {data, data, &ReportAndDelete<kFreeStorageMethod>,
\* curr_device}; the scoped lock is released
AllocReturn(t, dp) ==
  /\ gil' = 0
  /\ pc' = [pc EXCEPT ![t] = "done"]
  /\ returned' = returned \cup {dp.data}
  /\ live' = live \cup {dp}
  /\ IF op[t].name = "allocate"
     THEN /\ res' = [res EXCEPT ![t] = Ok(dp)]
          /\ UNCHANGED <<tensors, curDevice>>
     ELSE /\ res' = [res EXCEPT ![t] = Ok(FactoryTensor(op[t], dp))]
          /\ tensors' = [tensors EXCEPT ![op[t].out] = FactoryTensor(op[t], dp)]
          /\ curDevice' = [curDevice EXCEPT ![t] = loc[t].saved]

\* the record the backend keeps for a created storage
StorageRecord(handle, nbytes, device_idx) ==
  [handle |-> handle, nbytes |-> nbytes, device |-> device_idx]

\* line 33: get_method(kCreateStorageMethod)(storage_id, nbytes,
\* curr_device_idx)
CreateStorageCallSwapped(storage_id, nbytes, curr_device_idx) ==
  Call(CreateStorage, <<storage_id, curr_device_idx, nbytes>>)
CreateStorageCall(storage_id, nbytes, curr_device_idx) ==
  Call(CreateStorage, <<storage_id, nbytes, curr_device_idx>>)

\* lines 33-41: create_storage, TORCH_CHECK, return
AllocCreateStorage(t) ==
  /\ pc[t] = "alloc_createStorage"
  /\ calls' = [calls EXCEPT ![t] = Append(@,
                 CreateStorageCall(loc[t].id, loc[t].nbytes, loc[t].dev))]
  /\ \E reply \in CreateStorageReplies :
       IF reply.raised
       THEN /\ AllocThrow(t, "CallbackRaised")
            /\ loc' = [loc EXCEPT ![t].reply = "raised"]
            /\ UNCHANGED storages
       ELSE /\ loc' = [loc EXCEPT ![t].reply =
                         IF reply.value THEN "True" ELSE "False"]
            /\ storages' = IF reply.value
                           THEN storages \cup
                                {StorageRecord(loc[t].id, loc[t].nbytes, loc[t].dev)}
                           ELSE storages
            /\ IF AllocCheck(reply.value)
               THEN AllocReturn(t, MakeDataPtr(AllocData(loc[t].id), loc[t].dev))
               ELSE AllocThrow(t, "AllocationError")
  /\ UNCHANGED <<op, minted, freed, freeCalls>>

(* ---------------------- RemoteAllocator::copy_data --------------------- *)
\* the data pointers the framework holds
LivePtrs == {dp.data : dp \in live}

\* void copy_data(void* dest, const void* src, std::size_t count);
\* line 49: py::gil_scoped_acquire acquire
CallCopyData(t) ==
  /\ \E dest \in LivePtrs, src \in LivePtrs, count \in CopyCounts :
       Enter(t, [name |-> "copy_data", dest |-> dest, src |-> src,
                 count |-> count], "copy_call", NoLoc, NoRes)
  /\ GilAcquire(t)
  /\ UNCHANGED <<minted, storages, freed, freeCalls, curDevice, live,
                 tensors, returned>>

\* line 53: the call's result is dropped; only a raised exception leaves
\* copy_data, as the exception it is
CopyOutcomeSwallow(reply) == Ok("void")
CopyOutcome(reply) == IF reply.raised THEN Err("CopyError") ELSE Ok("void")

\* lines 51-53: the pointers converted back to ids, then
\* copy_data_by_id(dest_id, src_id, count)
CopyDataCallSwapped(dest, src, count) ==
  Call(CopyDataById, <<ReinterpretAsId(src), ReinterpretAsId(dest), count>>)
CopyDataCall(dest, src, count) ==
  Call(CopyDataById, <<ReinterpretAsId(dest), ReinterpretAsId(src), count>>)

\* lines 51-53: copy_data_by_id(dest_id, src_id, count)
CopyCall(t) ==
  /\ pc[t] = "copy_call"
  /\ calls' = [calls EXCEPT ![t] = Append(@,
                 CopyDataCall(op[t].dest, op[t].src, op[t].count))]
  /\ \E reply \in CopyDataReplies :
       /\ loc' = [loc EXCEPT ![t].reply =
                    IF reply.raised THEN "raised" ELSE reply.value]
       /\ res' = [res EXCEPT ![t] = CopyOutcome(reply)]
  /\ pc' = [pc EXCEPT ![t] = "done"]
  /\ gil' = 0
  /\ UNCHANGED <<op, minted, storages, freed, freeCalls, curDevice, live,
                 tensors, returned>>

(* ------------------ ReportAndDelete<kFreeStorageMethod> ---------------- *)
\* the framework destroys a DataPtr no tensor references any more and runs
\* its deleter on the context pointer
CallFree(t) ==
  /\ \E dp \in live :
       /\ \A s \in TensorSlots : tensors[s].storage # dp.data
       /\ Enter(t, [name |-> "free", ptr |-> dp.ctx, deleter |-> dp.deleter],
                "free_call", NoLoc, NoRes)
       /\ live' = live \ {dp}
  /\ GilAcquire(t)
  /\ UNCHANGED <<minted, storages, freed, freeCalls, curDevice,
                 tensors, returned>>

\* the deleter reports a failure of free-storage and returns normally
ReportAndDeletePropagates(reply) ==
  IF reply.raised \/ ~reply.value THEN Err("FreeFailure") ELSE Ok("void")
ReportAndDelete(reply) == Ok("void")

FreeCall(t) ==
  /\ pc[t] = "free_call"
  /\ calls' = [calls EXCEPT ![t] = Append(@,
                 Call(FreeStorage, <<ReinterpretAsId(op[t].ptr)>>))]
  /\ \E reply \in FreeStorageReplies :
       /\ loc' = [loc EXCEPT ![t].reply =
                    IF reply.raised THEN "raised"
                    ELSE IF reply.value THEN "True" ELSE "False"]
       /\ IF ~reply.raised /\ reply.value
          THEN /\ storages' = {r \in storages :
                                 r.handle # ReinterpretAsId(op[t].ptr)}
               /\ freed' = freed \cup {ReinterpretAsId(op[t].ptr)}
          ELSE UNCHANGED <<storages, freed>>
       /\ res' = [res EXCEPT ![t] = ReportAndDelete(reply)]
  /\ freeCalls' = freeCalls \cup {ReinterpretAsId(op[t].ptr)}
  /\ pc' = [pc EXCEPT ![t] = "done"]
  /\ gil' = 0
  /\ UNCHANGED <<op, minted, curDevice, live, tensors, returned>>

(* ------------------------ validate_device_index ------------------------ *)
\* cast<c10::DeviceIndex>() succeeds on a Python int the type can hold
FitsDeviceIndex(v) == v >= DeviceIndexMin /\ v <= DeviceIndexMax

\* lines 66-71: the comparison, and catch (...) for a raised callback or a
\* failed cast
ValidateDeviceIndexInclusive(device_index, reply) ==
  IF reply.raised \/ ~FitsDeviceIndex(reply.value) THEN Ok(FALSE)
  ELSE Ok(device_index >= 0 /\ device_index <= reply.value)
ValidateDeviceIndexNoCatch(device_index, reply) ==
  IF reply.raised \/ ~FitsDeviceIndex(reply.value) THEN Err("CallbackRaised")
  ELSE Ok(device_index >= 0 /\ device_index < reply.value)
ValidateDeviceIndex(device_index, reply) ==
  IF reply.raised \/ ~FitsDeviceIndex(reply.value) THEN Ok(FALSE)
  ELSE Ok(device_index >= 0 /\ device_index < reply.value)

\* bool validate_device_index(c10::DeviceIndex device_index), called
\* directly; line 65: py::gil_scoped_acquire acquire
CallValidate(t) ==
  /\ \E device_index \in Indices :
       Enter(t, [name |-> "validate_device_index",
                 device_index |-> device_index], "validate_query",
             [NoLoc EXCEPT !.target = device_index], NoRes)
  /\ GilAcquire(t)
  /\ UNCHANGED <<minted, storages, freed, freeCalls, curDevice, live,
                 tensors, returned>>

(* --------------------------- tensor factories -------------------------- *)
\* c10::optional<T>
None == [has |-> FALSE]
Some(v) == [has |-> TRUE, value |-> v]
ValueOr(o, default) == IF o.has THEN o.value ELSE default

RemoteDevice(index) == [type |-> "remote", index |-> index]
CpuDevice(index) == [type |-> "cpu", index |-> index]

\* lines 84-87 of empty_remote: device resolution
ResolveDeviceDropIndex(device) ==
  LET target_device == ValueOr(device, RemoteDevice(0))
  IN  IF target_device.type # "remote"
      THEN RemoteDevice(0)
      ELSE target_device
ResolveDevice(device) ==
  LET target_device == ValueOr(device, RemoteDevice(0))
  IN  IF target_device.type # "remote"
      THEN RemoteDevice(target_device.index)
      ELSE target_device

\* lines 120-123 of empty_strided_remote: device resolution
ResolveDeviceStrided(device) ==
  LET target_device == ValueOr(device, RemoteDevice(0))
  IN  IF target_device.type # "remote"
      THEN RemoteDevice(target_device.index)
      ELSE target_device

\* line 95 (131): layout.value_or(at::Layout::Strided)
ResolveLayout(layout) == ValueOr(layout, "Strided")
\* line 99 (134): pin_memory.value_or(false)
ResolvePinMemory(pin_memory) == ValueOr(pin_memory, FALSE)

\* lines 90-99 of empty_remote: the TORCH_CHECKs in the order the code makes
\* them; "ok" when all pass
EmptyChecksPinFirst(valid, layout, pin_memory) ==
  IF ~valid THEN "InvalidDeviceError"
  ELSE IF ResolvePinMemory(pin_memory) THEN "UnsupportedFeatureError"
  ELSE IF ResolveLayout(layout) # "Strided" THEN "UnsupportedLayoutError"
  ELSE "ok"
EmptyChecksNoPin(valid, layout, pin_memory) ==
  IF ~valid THEN "InvalidDeviceError"
  ELSE IF ResolveLayout(layout) # "Strided" THEN "UnsupportedLayoutError"
  ELSE "ok"
EmptyChecksNoDevice(valid, layout, pin_memory) ==
  IF ResolveLayout(layout) # "Strided" THEN "UnsupportedLayoutError"
  ELSE IF ResolvePinMemory(pin_memory) THEN "UnsupportedFeatureError"
  ELSE "ok"
EmptyChecks(valid, layout, pin_memory) ==
  IF ~valid THEN "InvalidDeviceError"
  ELSE IF ResolveLayout(layout) # "Strided" THEN "UnsupportedLayoutError"
  ELSE IF ResolvePinMemory(pin_memory) THEN "UnsupportedFeatureError"
  ELSE "ok"

\* lines 126-134 of empty_strided_remote: the same checks in the same order
EmptyStridedChecksNoLayout(valid, layout, pin_memory) ==
  IF ~valid THEN "InvalidDeviceError"
  ELSE IF ResolvePinMemory(pin_memory) THEN "UnsupportedFeatureError"
  ELSE "ok"
EmptyStridedChecks(valid, layout, pin_memory) ==
  IF ~valid THEN "InvalidDeviceError"
  ELSE IF ResolveLayout(layout) # "Strided" THEN "UnsupportedLayoutError"
  ELSE IF ResolvePinMemory(pin_memory) THEN "UnsupportedFeatureError"
  ELSE "ok"

\* bytes per element; the default dtype is float32
ItemSize(dtype) == IF ValueOr(dtype, "float32") = "uint8" THEN 1 ELSE 4

RECURSIVE NumElements(_)
NumElements(size) ==
  IF size = <<>> THEN 1 ELSE Head(size) * NumElements(Tail(size))

RECURSIVE ViewExtent(_, _)
\* 1 + sum (size[i] - 1) * stride[i]: elements a strided view spans
ViewExtent(size, stride) ==
  IF size = <<>> THEN 1
  ELSE (Head(size) - 1) * Head(stride) + ViewExtent(Tail(size), Tail(stride))

\* strides of a contiguous tensor (at::detail::empty_generic)
ContiguousStrides(size) ==
  [i \in 1..Len(size) |-> NumElements([j \in 1..(Len(size) - i) |->
                             IF size[i + j] = 0 THEN 1 ELSE size[i + j]])]

\* bytes empty_generic asks the allocator for
EmptyNbytes(size, dtype) == NumElements(size) * ItemSize(dtype)
\* bytes empty_strided_generic asks the allocator for
EmptyStridedNbytes(size, stride, dtype) ==
  IF NumElements(size) = 0 THEN 0
  ELSE ViewExtent(size, stride) * ItemSize(dtype)

(* ------------------------------ inputs --------------------------------- *)
Sizes == {<<0>>, <<2, 2>>}
Strides == {<<2, 1>>}
DTypes == {None}
Layouts == {None, Some("Strided"), Some("Sparse")}
PinOptions == {None, Some(FALSE), Some(TRUE)}
MemoryFormats == {None}
Devices == {None} \cup {Some(RemoteDevice(i)) : i \in Indices}
                  \cup {Some(CpuDevice(i)) : i \in {-1, 1}}

\* at::Tensor empty_remote(size, dtype, layout, device, pin_memory,
\* memory_format); lines 83-90 up to the call of validate_device_index and
\* its line 65
CallEmpty(t, sizes, devices, layouts, pins, outs) ==
  /\ \E size \in sizes, dtype \in DTypes, layout \in layouts,
        device \in devices, pin_memory \in pins,
        memory_format \in MemoryFormats, out \in outs :
       Enter(t, [name |-> "empty_remote", size |-> size,
                 stride |-> ContiguousStrides(size), dtype |-> dtype,
                 layout |-> layout, device |-> device,
                 pin_memory |-> pin_memory, memory_format |-> memory_format,
                 out |-> out],
             "validate_query",
             [NoLoc EXCEPT !.target = ResolveDevice(device).index], NoRes)
  /\ GilAcquire(t)
  /\ UNCHANGED <<minted, storages, freed, freeCalls, curDevice, live,
                 tensors, returned>>

\* at::Tensor empty_strided_remote(size, stride, dtype, layout, device,
\* pin_memory); lines 119-126 up to the call of validate_device_index and
\* its line 65
CallEmptyStrided(t, sizes, devices, layouts, pins, outs) ==
  /\ \E size \in sizes, stride \in Strides, dtype \in DTypes,
        layout \in layouts, device \in devices, pin_memory \in pins,
        out \in outs :
       Enter(t, [name |-> "empty_strided_remote", size |-> size,
                 stride |-> stride, dtype |-> dtype, layout |-> layout,
                 device |-> device, pin_memory |-> pin_memory,
                 memory_format |-> None, out |-> out],
             "validate_query",
             [NoLoc EXCEPT !.target = ResolveDeviceStrided(device).index],
             NoRes)
  /\ GilAcquire(t)
  /\ UNCHANGED <<minted, storages, freed, freeCalls, curDevice, live,
                 tensors, returned>>

\* the TORCH_CHECKs of the factory thread t runs
FactoryChecks(o, valid) ==
  IF o.name = "empty_remote"
  THEN EmptyChecks(valid, o.layout, o.pin_memory)
  ELSE EmptyStridedChecks(valid, o.layout, o.pin_memory)

\* the bytes the factory asks the allocator for
FactoryNbytes(o) ==
  IF o.name = "empty_remote"
  THEN EmptyNbytes(o.size, o.dtype)
  ELSE EmptyStridedNbytes(o.size, o.stride, o.dtype)

\* lines 66-71, and for a factory lines 90-107 (126-142) up to the call of
\* allocate: the checks, then c10::DeviceGuard device_guard(target_device)
ValidateQuery(t) ==
  /\ pc[t] = "validate_query"
  /\ calls' = [calls EXCEPT ![t] = Append(@, Call(DeviceCount, <<>>))]
  /\ gil' = 0
  /\ \E reply \in DeviceCountReplies :
       LET outcome == ValidateDeviceIndex(loc[t].target, reply)
           seen == [loc[t] EXCEPT
                      !.reply = IF reply.raised THEN "raised" ELSE "value",
                      !.count = IF reply.raised THEN -1 ELSE reply.value]
       IN  IF op[t].name = "validate_device_index" \/ outcome.kind # "ok"
           THEN /\ res' = [res EXCEPT ![t] = outcome]
                /\ pc' = [pc EXCEPT ![t] = "done"]
                /\ loc' = [loc EXCEPT ![t] = seen]
                /\ UNCHANGED curDevice
           ELSE IF FactoryChecks(op[t], outcome.value) # "ok"
           THEN /\ res' = [res EXCEPT ![t] =
                             Err(FactoryChecks(op[t], outcome.value))]
                /\ pc' = [pc EXCEPT ![t] = "done"]
                /\ loc' = [loc EXCEPT ![t] = seen]
                /\ UNCHANGED curDevice
           ELSE /\ loc' = [loc EXCEPT ![t] =
                             [seen EXCEPT !.saved = curDevice[t],
                                          !.nbytes = FactoryNbytes(op[t])]]
                /\ curDevice' = [curDevice EXCEPT ![t] = loc[t].target]
                /\ pc' = [pc EXCEPT ![t] = "alloc_acquire"]
                /\ UNCHANGED res
  /\ UNCHANGED <<op, minted, storages, freed, freeCalls, live, tensors,
                 returned>>

(* ------------------------------ view ops ------------------------------- *)
\* a tensor of the host framework that lives in local CPU memory
CpuTensor ==
  [storage |-> [addr |-> -1], device |-> CpuDevice(-1), size |-> <<2>>,
   stride |-> <<1>>, offset |-> 0, dtype |-> "float32"]

\* the tensors the host framework holds
HeldTensors == {tensors[s] : s \in TensorSlots} \ {NoTensor}

\* the (size, stride, storage_offset) requests of the view operations
ViewRequests ==
  {[size |-> <<2>>, stride |-> <<1>>, storage_offset |-> None],
   [size |-> <<1, 2>>, stride |-> <<2, 1>>, storage_offset |-> Some(1)]}

\* lines 152-157 and 168: the backend callbacks a view operation issues on
\* its way through at::cpu::as_strided / at::cpu::set_: none
ViewCallsValidated(name) == <<Call(DeviceCount, <<>>)>>
ViewCalls(name) == <<>>

\* thread t runs the local operation o, which ends with r, in one step
EnterLocal(t, o, r) ==
  /\ Idle(t)
  /\ pc' = [pc EXCEPT ![t] = "done"]
  /\ op' = [op EXCEPT ![t] = o]
  /\ loc' = [loc EXCEPT ![t] = NoLoc]
  /\ calls' = [calls EXCEPT ![t] = ViewCalls(o.name)]
  /\ res' = [res EXCEPT ![t] = r]

\* lines 152-157: the device check, then at::cpu::as_strided, which builds a
\* view on the storage of self without any dispatch
AsStridedRemoteNoOffset(self, size, stride, storage_offset) ==
  IF self.device.type # "remote"
  THEN Err("PreconditionError")
  ELSE Ok([self EXCEPT !.size = size, !.stride = stride])
AsStridedRemoteUnchecked(self, size, stride, storage_offset) ==
  Ok([self EXCEPT !.size = size, !.stride = stride,
                  !.offset = ValueOr(storage_offset, self.offset)])
AsStridedRemote(self, size, stride, storage_offset) ==
  IF self.device.type # "remote"
  THEN Err("PreconditionError")
  ELSE Ok([self EXCEPT !.size = size, !.stride = stride,
                       !.offset = ValueOr(storage_offset, self.offset)])

\* at::Tensor as_strided_remote(self, size, stride, storage_offset); the
\* caller keeps the view in variable out
AsStrided(t) ==
  /\ \E self \in HeldTensors \cup {CpuTensor}, rq \in ViewRequests,
        out \in TensorSlots :
       LET outcome == AsStridedRemote(self, rq.size, rq.stride,
                                      rq.storage_offset)
       IN  /\ EnterLocal(t, [name |-> "as_strided_remote", self |-> self,
                             size |-> rq.size, stride |-> rq.stride,
                             storage_offset |-> rq.storage_offset,
                             out |-> out], outcome)
           /\ tensors' = IF outcome.kind = "ok"
                         THEN [tensors EXCEPT ![out] = outcome.value]
                         ELSE tensors
  /\ UNCHANGED <<gil, minted, storages, freed, freeCalls, curDevice, live,
                 returned>>

\* line 168: at::cpu::set_ rebinds result to the given storage in place
SetStorage(result, storage, storage_offset, size, stride) ==
  [result EXCEPT !.storage = storage.data, !.device = storage.device,
                 !.offset = storage_offset, !.size = size, !.stride = stride]

\* at::Tensor& set_remote(result, storage, storage_offset, size, stride) on
\* the tensor in variable s
SetRemote(t) ==
  /\ \E s \in TensorSlots, storage \in live, rq \in ViewRequests :
       LET storage_offset == ValueOr(rq.storage_offset, 0)
           out == SetStorage(tensors[s], storage, storage_offset, rq.size,
                             rq.stride)
       IN  /\ tensors[s] # NoTensor
           /\ EnterLocal(t, [name |-> "set_remote", result |-> tensors[s],
                             storage |-> storage,
                             storage_offset |-> storage_offset,
                             size |-> rq.size, stride |-> rq.stride,
                             out |-> s], Ok(out))
           /\ tensors' = [tensors EXCEPT ![s] = out]
  /\ UNCHANGED <<gil, minted, storages, freed, freeCalls, curDevice, live,
                 returned>>

\* the host framework drops the tensor in variable s
DropTensor ==
  /\ \E s \in TensorSlots :
       /\ tensors[s] # NoTensor
       /\ tensors' = [tensors EXCEPT ![s] = NoTensor]
  /\ UNCHANGED <<pc, op, loc, calls, res, gil, minted, storages, freed, freeCalls,
                 curDevice, live, returned>>

(* --------------------------- specifications ---------------------------- *)
\* a step of the allocator core by thread t
AllocatorStep(t) ==
  \/ CallAllocate(t) \/ AllocGetDevice(t) \/ AllocGenerateId(t)
  \/ AllocCreateStorage(t)
  \/ CallCopyData(t) \/ CopyCall(t)
  \/ CallFree(t) \/ FreeCall(t)
  \/ Return(t)

\* the allocator core called from all threads
Next == \E t \in Threads : AllocatorStep(t)

Spec == Init /\ [][Next]_vars

\* a step of a tensor factory by thread t, down to the allocator
FactoryStep(t, sizes, devices, layouts, pins, outs) ==
  \/ CallEmpty(t, sizes, devices, layouts, pins, outs)
  \/ CallEmptyStrided(t, sizes, devices, layouts, pins, outs)
  \/ ValidateQuery(t)
  \/ AllocAcquire(t) \/ AllocGetDevice(t) \/ AllocGenerateId(t)
  \/ AllocCreateStorage(t)
  \/ Return(t)

\* the device validator, and the tensor factories with every combination of
\* device, layout and pin_memory, called from one thread
FactoryNext ==
  \/ CallValidate(1)
  \/ FactoryStep(1, {<<2, 2>>}, Devices, Layouts, PinOptions, {1})

SpecFactory == Init /\ [][FactoryNext]_vars

\* the view operations on tensors the factories made with default
\* arguments, the framework dropping tensors and freeing their storage
ViewNext ==
  \/ FactoryStep(1, Sizes, {None}, {None}, {None}, TensorSlots)
  \/ AsStrided(1) \/ SetRemote(1)
  \/ CallFree(1) \/ FreeCall(1)
  \/ DropTensor

SpecViews == Init /\ [][ViewNext]_vars

\* every operation that takes the interpreter lock, called from all threads
LockNext ==
  \E t \in Threads :
    AllocatorStep(t) \/ CallValidate(t) \/ ValidateQuery(t)

SpecLock == Init /\ [][LockNext]_vars

(* ------------------------------- claims -------------------------------- *)
\* thread t has finished operation name
Finished(t, name) == pc[t] = "done" /\ op[t].name = name

\* C1: every successful allocate returns a data pointer that no earlier
\* successful allocate returned and that is the pointer of no handle minted
\* before its own, whichever thread made the earlier calls and whether or
\* not the earlier handle was freed since.
C1_HandlesNeverRepeat ==
  [][\A t \in Threads :
       (pc[t] = "alloc_createStorage" /\ pc'[t] = "done"
        /\ res'[t].kind = "ok" /\ op[t].name = "allocate")
       => /\ res'[t].value.data \notin returned
          /\ \A h \in minted \ {loc[t].id} :
               res'[t].value.data # ReinterpretAsPtr(h)]_vars

\* both threads have allocated successfully, one of them after a free
C1_Witness ==
  /\ Finished(1, "allocate") /\ res[1].kind = "ok"
  /\ Finished(2, "allocate") /\ res[2].kind = "ok"
  /\ freed # {}

\* C2: no successful allocate returns the null pointer, the "no storage"
\* value, whatever the byte count.
C2_NeverNull ==
  /\ NullPtr \notin returned
  /\ \A dp \in live : dp.data # NullPtr
  /\ \A t \in Threads :
       (Finished(t, "allocate") /\ res[t].kind = "ok")
       => res[t].value.data # NullPtr

\* a zero-byte allocate has succeeded
C2_Witness ==
  \E t \in Threads :
    Finished(t, "allocate") /\ res[t].kind = "ok" /\ op[t].nbytes = 0

\* C3: when create-storage answers False, allocate ends in AllocationError
\* and hands out no DataPtr for the handle; an allocate that succeeds had
\* create-storage answer True.
C3_CreateFailureSurfaces ==
  \A t \in Threads :
    Finished(t, "allocate")
    => /\ loc[t].reply = "False"
          => /\ res[t].kind = "AllocationError"
             /\ ReinterpretAsPtr(loc[t].id) \notin returned
             /\ \A dp \in live : dp.data # ReinterpretAsPtr(loc[t].id)
       /\ res[t].kind = "ok" => loc[t].reply = "True"

\* create-storage has answered False to an allocate
C3_Witness ==
  \E t \in Threads :
    /\ Finished(t, "allocate") /\ loc[t].reply = "False"
    /\ Len(calls[t]) = 3 /\ calls[t][3].name = CreateStorage

C5_FreeNeverRaises ==
  \A t \in Threads :
    Finished(t, "free")
    => /\ res[t].kind = "ok"
       /\ Len(calls[t]) = 1 /\ calls[t][1].name = FreeStorage

\* free-storage has raised on the handle of a zero-byte storage
C5_Witness ==
  \E t \in Threads :
    /\ Finished(t, "free") /\ loc[t].reply = "raised"
    /\ \E r \in storages :
         r.handle = ReinterpretAsId(op[t].ptr) /\ r.nbytes = 0

\* the device-count query of the operation with locals l gave a count that
\* c10::DeviceIndex holds
QueryObtained(l) == l.count >= 0 /\ FitsDeviceIndex(l.count)
\* ... and the index the operation validated lies in [0, count)
InRange(l) == QueryObtained(l) /\ 0 <= l.target /\ l.target < l.count

\* C6: when the device-count query gives a count c, validate_device_index(i)
\* returns true exactly when 0 <= i < c: false below 0, false from c on; the
\* count is the one the callback gave in this very call, asked once.
C6_ValidIffInRange ==
  \A t \in Threads :
    (Finished(t, "validate_device_index") /\ QueryObtained(loc[t]))
    => /\ res[t].kind = "ok"
       /\ res[t].value = (0 <= op[t].device_index
                          /\ op[t].device_index < loc[t].count)
       /\ calls[t] = <<Call(DeviceCount, <<>>)>>

\* the last valid index has been accepted
C6_Witness ==
  \E t \in Threads :
    /\ Finished(t, "validate_device_index")
    /\ loc[t].count = MaxCount /\ op[t].device_index = MaxCount - 1
    /\ res[t] = Ok(TRUE)

\* C7: when the device-count callback raises, or its result does not
\* convert to c10::DeviceIndex, validate_device_index returns false for
\* every index; it never ends in an exception.
C7_QueryFailureIsInvalid ==
  \A t \in Threads :
    Finished(t, "validate_device_index")
    => /\ res[t].kind = "ok"
       /\ ~QueryObtained(loc[t]) => res[t].value = FALSE

\* the callback has raised while index 0 was validated
C7_Witness ==
  \E t \in Threads :
    /\ Finished(t, "validate_device_index") /\ loc[t].reply = "raised"
    /\ op[t].device_index = 0 /\ res[t] = Ok(FALSE)

\* C8 as claimed: empty_remote with a non-strided layout ends in
\* UnsupportedLayoutError and with pin_memory true in
\* UnsupportedFeatureError, whatever the other arguments.
C8_Claimed ==
  \A t \in Threads :
    Finished(t, "empty_remote")
    => /\ ResolveLayout(op[t].layout) # "Strided"
          => res[t].kind = "UnsupportedLayoutError"
       /\ ResolvePinMemory(op[t].pin_memory)
          => res[t].kind = "UnsupportedFeatureError"

\* C8 as amended: empty_remote with a non-strided layout or with pin_memory
\* true always fails, with the error of the first check that fails:
\* InvalidDeviceError when the resolved index is not valid, else
\* UnsupportedLayoutError when the layout is not strided, else
\* UnsupportedFeatureError.
C8_FirstFailingCheck ==
  \A t \in Threads :
    (Finished(t, "empty_remote")
     /\ (ResolveLayout(op[t].layout) # "Strided"
         \/ ResolvePinMemory(op[t].pin_memory)))
    => res[t].kind =
         IF ~InRange(loc[t]) THEN "InvalidDeviceError"
         ELSE IF ResolveLayout(op[t].layout) # "Strided"
         THEN "UnsupportedLayoutError"
         ELSE "UnsupportedFeatureError"

\* a sparse, pinned request on a valid device has been rejected
C8_Witness ==
  \E t \in Threads :
    /\ Finished(t, "empty_remote") /\ InRange(loc[t])
    /\ op[t].layout = Some("Sparse") /\ op[t].pin_memory = Some(TRUE)
    /\ res[t].kind = "UnsupportedLayoutError"

\* C9: when the device-count query gives a count, empty_remote ends in
\* InvalidDeviceError if the resolved index lies outside [0, count); if it
\* lies inside and layout and pin_memory are valid, no argument check
\* rejects the call, it succeeds exactly when the allocation succeeds on
\* the backend, and the tensor it returns is stored on the handle minted
\* in this call, which no earlier allocation returned.
C9_DeviceRangeDecides ==
  [][\A t \in Threads :
       (pc[t] # "done" /\ pc'[t] = "done" /\ op[t].name = "empty_remote"
        /\ QueryObtained(loc'[t]))
       => /\ ~InRange(loc'[t]) => res'[t].kind = "InvalidDeviceError"
          /\ (/\ InRange(loc'[t])
              /\ ResolveLayout(op[t].layout) = "Strided"
              /\ ~ResolvePinMemory(op[t].pin_memory))
             => /\ res'[t].kind \in {"ok", "AllocationError", "CallbackRaised"}
                /\ res'[t].kind = "ok" <=> loc'[t].reply = "True"
                /\ res'[t].kind = "ok"
                   => /\ res'[t].value.storage = ReinterpretAsPtr(loc[t].id)
                      /\ res'[t].value.storage \notin returned
                      /\ loc[t].id \in minted
                      /\ res'[t].value.size = op[t].size
                      /\ res'[t].value.device = RemoteDevice(loc[t].target)
                      /\ tensors'[op[t].out] = res'[t].value]_vars

\* remote:0 has succeeded on a backend that reports one device
C9_Witness ==
  \E t \in Threads :
    /\ Finished(t, "empty_remote") /\ res[t].kind = "ok"
    /\ op[t].device = Some(RemoteDevice(0)) /\ loc[t].count = 1
    /\ res[t].value.storage = ReinterpretAsPtr(loc[t].id)

\* C10: as_strided_remote on a tensor that is not on the remote device type
\* ends in PreconditionError, and no variable of the caller receives a view
\* of that tensor.
C10_NonRemoteRejected ==
  \A t \in Threads :
    (Finished(t, "as_strided_remote") /\ op[t].self.device.type # "remote")
    => /\ res[t].kind = "PreconditionError"
       /\ \A s \in TensorSlots : tensors[s].storage # op[t].self.storage

\* as_strided_remote has been called on the CPU tensor
C10_Witness ==
  \E t \in Threads :
    Finished(t, "as_strided_remote") /\ op[t].self = CpuTensor

\* thread t runs the local operation name in this step
Runs(t, name) == pc[t] = "idle" /\ pc'[t] = "done" /\ op'[t].name = name

\* C11: as_strided_remote on a remote tensor returns a tensor on the storage
\* of its input, with the size and stride asked for and the storage offset
\* asked for (the input's own when none is given); the step mints no
\* handle, returns no new data pointer, and the DataPtr of the input's
\* storage is still held afterwards and was never freed.
C11_ViewSharesStorage ==
  [][\A t \in Threads :
       (Runs(t, "as_strided_remote")
        /\ op'[t].self.device.type = "remote")
       => /\ res'[t].kind = "ok"
          /\ res'[t].value.storage = op'[t].self.storage
          /\ res'[t].value.device = op'[t].self.device
          /\ res'[t].value.size = op'[t].size
          /\ res'[t].value.stride = op'[t].stride
          /\ res'[t].value.offset =
               ValueOr(op'[t].storage_offset, op'[t].self.offset)
          /\ tensors'[op'[t].out] = res'[t].value
          /\ minted' = minted /\ returned' = returned /\ live' = live
          /\ \E dp \in live' : dp.data = op'[t].self.storage
          /\ ReinterpretAsId(op'[t].self.storage) \notin freeCalls']_vars

\* a view with storage offset 1 has been made of a remote tensor at offset 0
C11_Witness ==
  \E t \in Threads :
    /\ Finished(t, "as_strided_remote") /\ res[t].kind = "ok"
    /\ op[t].self.offset = 0 /\ op[t].storage_offset = Some(1)
    /\ res[t].value.storage = op[t].self.storage
    /\ res[t].value.storage \in LivePtrs

\* C12: as_strided_remote and set_remote issue no backend callback, take no
\* lock, and leave the backend's handles and storages and the framework's
\* DataPtrs as they were; only the tensor variable written changes.
C12_ViewOpsStayLocal ==
  [][\A t \in Threads :
       (Runs(t, "as_strided_remote") \/ Runs(t, "set_remote"))
       => /\ calls'[t] = <<>>
          /\ UNCHANGED <<gil, minted, storages, freed, freeCalls, live,
                         returned, curDevice>>
          /\ \A s \in TensorSlots \ {op'[t].out} : tensors'[s] = tensors[s]]_vars

\* set_remote has rebound a tensor while a remote storage exists
C12_Witness ==
  \E t \in Threads :
    /\ Finished(t, "set_remote") /\ storages # {}
    /\ tensors[op[t].out].storage = op[t].storage.data
    /\ tensors[op[t].out].offset = 1

\* the positions at which an operation is about to call into the backend
CallbackSites ==
  {"alloc_getDevice", "alloc_generateId", "alloc_createStorage",
   "copy_call", "free_call", "validate_query"}

\* C13: a thread that is about to issue a backend callback in allocate,
\* copy_data, the deleter or validate_device_index holds the interpreter
\* lock, so at most one thread is at a callback at any time; a thread that
\* has left its operation, normally or by an exception, does not hold it.
C13_CallbacksUnderLock ==
  /\ \A t \in Threads :
       /\ pc[t] \in CallbackSites => gil = t
       /\ pc[t] \in {"idle", "done"} => gil # t
  /\ Cardinality({t \in Threads : pc[t] \in CallbackSites}) <= 1

\* one thread has left allocate by the failed allocation check and the
\* other is at a callback with the lock
C13_Witness ==
  \E t \in Threads, u \in Threads :
    /\ Finished(t, "allocate") /\ res[t].kind = "AllocationError"
    /\ pc[u] = "validate_query" /\ gil = u

\* the handles of the storages that exist on the backend
Created == {r.handle : r \in storages}

\* every tensor the framework holds is on a storage that exists, whose
\* DataPtr is held, and that free-storage was never called with
ReferencedStoragesAlive ==
  \A s \in TensorSlots :
    tensors[s] # NoTensor
    => /\ ReinterpretAsId(tensors[s].storage) \in Created
       /\ ReinterpretAsId(tensors[s].storage) \notin freeCalls
       /\ \E dp \in live : dp.data = tensors[s].storage
       /\ \A t \in Threads :
            pc[t] = "free_call" => op[t].ptr # tensors[s].storage

\* C14: the free-storage callback is called with a handle at most once,
\* and only with the handle of a pointer a successful allocate returned and
\* whose storage create-storage made and nothing destroyed since; a tensor
\* the framework holds, a view made by as_strided_remote included, is never
\* on a storage that was freed or is being freed, and no allocation returns
\* the pointer of a storage a held tensor is on.
C14_CreatedThenFreedOnce ==
  [][/\ ReferencedStoragesAlive'
     /\ \A t \in Threads :
          /\ (pc[t] = "free_call" /\ pc'[t] = "done")
             => /\ ReinterpretAsId(op[t].ptr) \notin freeCalls
                /\ op[t].ptr \in returned
                /\ ReinterpretAsId(op[t].ptr) \in Created
          /\ (pc[t] = "alloc_createStorage" /\ pc'[t] = "done"
              /\ res'[t].kind = "ok")
             => \A s \in TensorSlots :
                  tensors[s].storage # res'[t].value.storage]_vars

\* one storage has been freed while a view of another one is held
C14_Witness ==
  \E t \in Threads :
    /\ Finished(t, "free") /\ loc[t].reply = "True"
    /\ ReinterpretAsId(op[t].ptr) \in freed
    /\ \E s \in TensorSlots :
         /\ tensors[s].offset = 1
         /\ ReinterpretAsId(tensors[s].storage) \in Created

\* what the argument checks of a factory decided, read off its result: the
\* error of the check that failed, "ok" when the call went on to allocate
ValidationVerdict(r) ==
  IF r.kind \in {"InvalidDeviceError", "UnsupportedLayoutError",
                 "UnsupportedFeatureError"}
  THEN r.kind ELSE "ok"

\* C15: for every device, layout, pin_memory and device count,
\* empty_strided_remote validates the index empty_remote's device resolution
\* gives and is accepted or rejected, with the same error, as the checks of
\* empty_remote decide on these arguments; and the other way round.
C15_SameValidation ==
  \A t \in Threads :
    /\ Finished(t, "empty_strided_remote")
       => /\ loc[t].target = ResolveDevice(op[t].device).index
          /\ ValidationVerdict(res[t]) =
               EmptyChecks(InRange(loc[t]), op[t].layout, op[t].pin_memory)
    /\ Finished(t, "empty_remote")
       => /\ loc[t].target = ResolveDeviceStrided(op[t].device).index
          /\ ValidationVerdict(res[t]) =
               EmptyStridedChecks(InRange(loc[t]), op[t].layout,
                                  op[t].pin_memory)

\* empty_strided_remote has rejected a sparse request given a CPU device
\* whose index is valid
C15_Witness ==
  \E t \in Threads :
    /\ Finished(t, "empty_strided_remote")
    /\ op[t].device = Some(CpuDevice(1)) /\ InRange(loc[t])
    /\ op[t].layout = Some("Sparse")
    /\ res[t].kind = "UnsupportedLayoutError"

\* the callbacks a complete allocate with operation o and locals l issues
AllocateCalls(o, l) ==
  <<Call(GetDevice, <<>>), Call(GenerateStorageId, <<>>),
    Call(CreateStorage, <<l.id, o.nbytes, l.dev>>)>>

\* C16: allocate issues getDevice, generate_storage_id and create_storage
\* in this order and never twice; unless one of them raises (the sequence
\* then ends with that call) it issues all three, for 0 bytes as for any
\* other count; create_storage gets the handle generate_storage_id just
\* returned, the byte count asked for and the device index getDevice just
\* returned; a successful allocate of any size has minted a handle and has
\* its storage registered.
C16_CallbackOrder ==
  [][\A t \in Threads :
       op'[t].name = "allocate"
       => /\ Len(calls'[t]) <= 3
          /\ calls'[t] = SubSeq(AllocateCalls(op'[t], loc'[t]), 1,
                                Len(calls'[t]))
          /\ Len(calls'[t]) >= 1 /\ loc'[t].dev # -1
             => loc'[t].dev = curDevice'[t]
          /\ (pc'[t] = "done" /\ res'[t].kind \in {"ok", "AllocationError"})
             => Len(calls'[t]) = 3
          /\ (pc'[t] = "done" /\ res'[t].kind = "CallbackRaised")
             => loc'[t].reply = "raised" /\ Len(calls'[t]) >= 1
          /\ (pc[t] # "done" /\ pc'[t] = "done" /\ res'[t].kind = "ok")
             => /\ loc'[t].id \in minted'
                /\ StorageRecord(loc'[t].id, op'[t].nbytes, loc'[t].dev)
                     \in storages']_vars

\* a zero-byte allocate has succeeded after its three callbacks
C16_Witness ==
  \E t \in Threads :
    /\ Finished(t, "allocate") /\ res[t].kind = "ok" /\ op[t].nbytes = 0
    /\ calls[t] = AllocateCalls(op[t], loc[t])
    /\ loc[t].id \in minted

\* thread t runs one of the two tensor factories
InFactory(t) == op[t].name \in {"empty_remote", "empty_strided_remote"}

\* the index the caller asked for: 0 when no device is given
RequestedIndex(device) == IF device.has THEN device.value.index ELSE 0

\* C17: a factory call that succeeds has validated the index the caller
\* gave (0 when no device was given), whatever the type of the device
\* given, has run allocate with that index as the current device, has passed
\* it to create_storage, and returns a tensor tagged remote:index on the
\* storage registered for that index; when a call that bound the device
\* guard ends, normally or in an error, the current device is again what it
\* was before the guard.
C17_CreatedOnResolvedDevice ==
  [][\A t \in Threads :
       (InFactory(t) /\ pc'[t] = "done"
        /\ pc[t] \in {"alloc_getDevice", "alloc_generateId",
                      "alloc_createStorage"})
       => /\ curDevice'[t] = loc[t].saved
          /\ res'[t].kind = "ok"
             => /\ loc[t].target = RequestedIndex(op[t].device)
                /\ curDevice[t] = RequestedIndex(op[t].device)
                /\ calls'[t][Len(calls'[t])] =
                     Call(CreateStorage,
                          <<loc[t].id, loc[t].nbytes,
                            RequestedIndex(op[t].device)>>)
                /\ res'[t].value.device =
                     RemoteDevice(RequestedIndex(op[t].device))
                /\ StorageRecord(loc[t].id, loc[t].nbytes,
                                 RequestedIndex(op[t].device)) \in storages'
                /\ \E dp \in live' :
                     /\ dp.data = res'[t].value.storage
                     /\ dp.device = RemoteDevice(RequestedIndex(op[t].device))]_vars

\* empty_remote given cpu:1 has returned a tensor on remote:1 and the
\* current device is 0 again
C17_Witness ==
  \E t \in Threads :
    /\ Finished(t, "empty_remote") /\ res[t].kind = "ok"
    /\ op[t].device = Some(CpuDevice(1))
    /\ res[t].value.device = RemoteDevice(1)
    /\ loc[t].dev = 1 /\ curDevice[t] = 0

\* the handles create_storage registered whose pointer, as allocate makes
\* it, is ptr
HandlesOf(ptr) == {h \in Created : ReinterpretAsPtr(h) = ptr}

\* C18: the pointer a successful allocate returns, and the context it
\* hands the deleter, convert back to the handle create_storage received;
\* copy_data calls copy_data_by_id once, with the handle registered for the
\* destination pointer, then the one registered for the source pointer, then
\* the byte count, and changes nothing the framework holds; the deleter
\* calls free_storage with the handle registered for its pointer.
C18_PointerRoundTrip ==
  [][\A t \in Threads :
       /\ (pc[t] = "alloc_createStorage" /\ pc'[t] = "done"
           /\ res'[t].kind = "ok" /\ op[t].name = "allocate")
          => /\ ReinterpretAsId(res'[t].value.data) = loc[t].id
             /\ ReinterpretAsId(res'[t].value.ctx) = loc[t].id
             /\ calls'[t][3].args[1] = loc[t].id
             /\ {h \in Created' : ReinterpretAsPtr(h) = res'[t].value.data}
                  = {loc[t].id}
       /\ (pc[t] = "copy_call" /\ pc'[t] = "done")
          => /\ Len(calls'[t]) = 1
             /\ calls'[t][1].name = CopyDataById
             /\ HandlesOf(op[t].dest) = {calls'[t][1].args[1]}
             /\ HandlesOf(op[t].src) = {calls'[t][1].args[2]}
             /\ calls'[t][1].args[3] = op[t].count
             /\ UNCHANGED <<live, tensors, storages, returned>>
       /\ (pc[t] = "free_call" /\ pc'[t] = "done")
          => /\ calls'[t] = <<Call(FreeStorage, <<calls'[t][1].args[1]>>)>>
             /\ HandlesOf(op[t].ptr) = {calls'[t][1].args[1]}]_vars

\* a copy between the storages of two different handles has been issued
C18_Witness ==
  \E t \in Threads :
    /\ Finished(t, "copy_data") /\ op[t].dest # op[t].src
    /\ calls[t][1].args[1] = ReinterpretAsId(op[t].dest)
    /\ calls[t][1].args[2] = ReinterpretAsId(op[t].src)
    /\ calls[t][1].args[1] # calls[t][1].args[2]

\* the arguments o and the device-count query seen in l make validation
\* reject the factory call
Rejectable(o, l) ==
  \/ ~InRange(l)
  \/ ResolveLayout(o.layout) # "Strided"
  \/ ResolvePinMemory(o.pin_memory)

\* C19: a factory call with an invalid device index, a non-strided layout
\* or pinned memory ends in one of the three validation errors having
\* issued the device-count query and no other callback; from its entry to
\* its end no handle is minted, no storage created, no DataPtr or tensor
\* handed out and the current device is not changed.
C19_RejectedMintsNothing ==
  [][\A t \in Threads :
       /\ (pc[t] = "idle" /\ pc'[t] # "idle"
           /\ op'[t].name \in {"empty_remote", "empty_strided_remote"})
          => /\ calls'[t] = <<>>
             /\ UNCHANGED <<minted, storages, live, returned, tensors,
                            curDevice>>
       /\ (InFactory(t) /\ pc[t] # "done" /\ pc'[t] = "done"
           /\ Rejectable(op[t], loc'[t]))
          => /\ res'[t].kind \in {"InvalidDeviceError",
                                  "UnsupportedLayoutError",
                                  "UnsupportedFeatureError"}
             /\ calls'[t] = <<Call(DeviceCount, <<>>)>>
             /\ UNCHANGED <<minted, storages, live, returned, tensors,
                            curDevice>>]_vars

\* after one successful factory call, a pinned request on a valid device
\* has been rejected
C19_Witness ==
  \E t \in Threads :
    /\ Finished(t, "empty_remote") /\ InRange(loc[t])
    /\ res[t].kind = "UnsupportedFeatureError"
    /\ calls[t] = <<Call(DeviceCount, <<>>)>>
    /\ Cardinality(minted) = 1 /\ Cardinality(storages) = 1

\* the handles a backend call c of copy or free names
HandlesIn(c) ==
  IF c.name = CopyDataById THEN {c.args[1], c.args[2]}
  ELSE IF c.name = FreeStorage THEN {c.args[1]}
  ELSE {}

\* the minted handles whose allocate has ended without returning a pointer
Abandoned ==
  {h \in minted :
     /\ ReinterpretAsPtr(h) \notin returned
     /\ \A t \in Threads :
          ~(pc[t] = "alloc_createStorage" /\ loc[t].id = h)}

\* C20: an allocate whose create_storage answered False ends in
\* AllocationError without a free_storage call and without having returned
\* a pointer for its handle; and for a handle whose allocate ended without
\* returning one, the framework holds no DataPtr (so no deleter),
\* free_storage was never called with it, and no copy or free in progress
\* or just finished names it.
C20_FailedHandleAbandoned ==
  /\ \A t \in Threads :
       (Finished(t, "allocate") /\ loc[t].reply = "False")
       => /\ res[t].kind = "AllocationError"
          /\ \A i \in DOMAIN calls[t] : calls[t][i].name # FreeStorage
          /\ loc[t].id \in Abandoned
  /\ \A h \in Abandoned :
       /\ h \notin freeCalls
       /\ \A dp \in live :
            ReinterpretAsId(dp.data) # h /\ ReinterpretAsId(dp.ctx) # h
       /\ \A u \in Threads :
            /\ \A i \in DOMAIN calls[u] : h \notin HandlesIn(calls[u][i])
            /\ op[u].name = "copy_data"
               => h \notin {ReinterpretAsId(op[u].dest),
                            ReinterpretAsId(op[u].src)}
            /\ op[u].name = "free" => h # ReinterpretAsId(op[u].ptr)

\* after an allocate failed on create_storage, the other thread is in a
\* copy between storages of another handle
C20_Witness ==
  \E t \in Threads, u \in Threads :
    /\ Finished(t, "allocate") /\ loc[t].reply = "False"
    /\ loc[t].id \in Abandoned
    /\ pc[u] = "copy_call" /\ op[u].dest \in LivePtrs

====
